---------------------------- MODULE Spec2Model ----------------------------
(***************************************************************************)
(* Model of the BMC OCC hwmon driver (src/occ.c): the frame decoder        *)
(* parse_occ_response, the response buffer and its release                 *)
(* (deinit_occ_resp_buf), the refresh path (occ_update_device,             *)
(* occ_get_all) and the sysfs attribute reads (show_occ_temp, ...).        *)
(*                                                                         *)
(* Two specifications share the definitions:                               *)
(*   DecodeSpec  applies parse_occ_response and the attribute reads to     *)
(*               input frames drawn from a bounded set;                    *)
(*   Spec        is the driver: devices, reader threads, update_lock,      *)
(*               jiffies, with occ_get_all decoding fake_occ_rsp as the    *)
(*               source does.                                              *)
(***************************************************************************)
EXTENDS Integers, Sequences, FiniteSets, TLC

VARIABLES
    char_signed,  \* whether plain char is signed in this build
    occ_data,     \* the bytes of occ_get_all's buffer (tail up to 4096 is 0)
    frame,        \* how the bytes of occ_data were laid out (its blocks)
    occ_resp,     \* the static occ_response_t
    heap,         \* the slab: its objects by address (1..Len(heap)); 0 is NULL
    call,         \* the last decode call: its return, cursor and reads
    acc,          \* the last attribute access of the decode harness
    drv,          \* per device: struct occ_drv_data
    thr,          \* per reader thread: where it is in show_occ_*
    jiffies,      \* the kernel clock
    nreads        \* attribute reads begun so far

vars ==
    <<char_signed, occ_data, frame, occ_resp, heap, call, acc, drv, thr,
      jiffies, nreads>>

-----------------------------------------------------------------------------
(* Program constants *)

OCC_DATA_MAX == 4096
ENOMEM == 12
HDR_LEN == 45
DESC_LEN == 8

(* Bounds of the model *)
MaxBlocks == 2       \* blocks supplied in an input frame
HZ == 1              \* sample_time, in clock ticks of the model
MaxJiffies == 2      \* the clock stops here
MaxReads == 2        \* attribute reads in one behaviour of the driver

NULL == 0

Max(a, b) == IF a >= b THEN a ELSE b

-----------------------------------------------------------------------------
(* C integer arithmetic, as the expressions of the source compute it.      *)
(* A 32-bit int is kept as its bit pattern, four bytes <<b3, b2, b1, b0>>  *)
(* with b3 the most significant; 8- and 16-bit values are numbers.         *)

U8(x) == x % 256

\* A char promoted to int: sign-extended when plain char is signed and the
\* byte has its top bit set.
Promote(byte) ==
    IF char_signed /\ byte >= 128 THEN <<255, 255, 255, byte>>
    ELSE <<0, 0, 0, byte>>

\* a uint16_t promoted to int, and an int converted to uint16_t
FromU16(x) == <<0, 0, x \div 256, x % 256>>
ToU16(w) == 256 * w[3] + w[4]

\* w << n, n a multiple of 8
Shl(w, n) ==
    LET k == n \div 8
    IN  [i \in 1..4 |-> IF i + k <= 4 THEN w[i + k] ELSE 0]

\* bitwise OR of two bytes, and of two ints
RECURSIVE OrBits(_, _, _)
OrBits(a, b, n) ==
    IF n = 0 THEN 0
    ELSE (IF (a % 2 = 1) \/ (b % 2 = 1) THEN 1 ELSE 0)
         + 2 * OrBits(a \div 2, b \div 2, n - 1)

\* a | b on bytes (a | 0 is a, and a | a is a)
OrByte(a, b) ==
    IF b = 0 \/ a = b THEN a
    ELSE IF a = 0 THEN b
    ELSE OrBits(a, b, 8)

Or32(v, w) == [i \in 1..4 |-> OrByte(v[i], w[i])]

\* the two bytes taken low byte first
Be16LowFirst(hi, lo) == 256 * lo + hi

\* uint16_t x = hi << 8;  x = x | lo;
Be16(hi, lo) ==
    LET x0 == ToU16(Shl(Promote(hi), 8))
    IN  ToU16(Or32(FromU16(x0), Promote(lo)))

\* uint32_t x = b0 << 24;  x = x | b1 << 16;  x = x | b2 << 8;  x = x | b3;
Be32(b0, b1, b2, b3) ==
    LET x0 == Shl(Promote(b0), 24)
        x1 == Or32(x0, Shl(Promote(b1), 16))
        x2 == Or32(x1, Shl(Promote(b2), 8))
    IN  Or32(x2, Promote(b3))

-----------------------------------------------------------------------------
(* Strings and the input buffer *)

TAG_TEMP == <<84, 69, 77, 80>>
TAG_FREQ == <<70, 82, 69, 81>>
TAG_POWR == <<80, 79, 87, 82>>
EYE_SENSOR == <<83, 69, 78, 83, 79, 82>>

Zeros(n) == [i \in 1..n |-> 0]

\* The environment of one decode call:
\*   d      the buffer's explicit bytes (the rest of its 4096 bytes is 0)
\*   failAt the kzalloc call of this decode that fails (0: none)
\*   junk   what a read past the end of the buffer finds when it does not trap
\*   oobTrap   whether a read past the end of the buffer traps (a kernel oops)
\*   nullTrap  whether a read through a NULL pointer traps
Env(d, failAt, junk, oobTrap, nullTrap) ==
    [d |-> d, failAt |-> failAt, junk |-> junk, oobTrap |-> oobTrap,
     nullTrap |-> nullTrap]

\* d[i], i a C offset
Rd(e, i) ==
    IF i < Len(e.d) THEN e.d[i + 1]
    ELSE IF i < OCC_DATA_MAX THEN 0
    ELSE e.junk

\* the C string held in a char array: the bytes before the first NUL
RECURSIVE CStr(_)
CStr(a) ==
    IF a = <<>> \/ Head(a) = 0 THEN <<>> ELSE <<Head(a)>> \o CStr(Tail(a))

\* a comparison of the first five characters only
StrEqFirstFive(a, lit) ==
    LET c == CStr(a)
        n == IF Len(lit) < 5 THEN Len(lit) ELSE 5
    IN  Len(c) >= n /\ \A i \in 1..n : c[i] = lit[i]

\* strcmp(a, lit) == 0
StrEq(a, lit) == CStr(a) = lit

\* strncpy(dst, &d[off], n): the n bytes written (NUL-padded after the
\* first NUL of the source)
RECURSIVE Strncpy(_, _, _)
Strncpy(e, off, n) ==
    IF n = 0 THEN <<>>
    ELSE IF Rd(e, off) = 0 THEN Zeros(n)
    ELSE <<Rd(e, off)>> \o Strncpy(e, off + 1, n - 1)

-----------------------------------------------------------------------------
(* The response and the heap *)

\* occ_sensor, powr_sensor and sensor_data_block as kzalloc returns them
ZeroSensor == [sensor_id |-> 0, value |-> 0]
ZeroWord == <<0, 0, 0, 0>>
ZeroPowr ==
    [sensor_id |-> 0, update_tag |-> ZeroWord, accumulator |-> ZeroWord,
     value |-> 0]
ZeroBlock ==
    [sensor_type |-> Zeros(5), reserved0 |-> 0, sensor_format |-> 0,
     sensor_length |-> 0, num_of_sensors |-> 0, sensor |-> NULL, powr |-> NULL]

ZeroOf(kind) ==
    IF kind = "blocks" THEN ZeroBlock
    ELSE IF kind = "powr" THEN ZeroPowr
    ELSE ZeroSensor

\* occ_poll_data and occ_response_t, zeroed (static storage, or memset)
ZeroPollData ==
    [status |-> 0, ext_status |-> 0, occs_present |-> 0, config |-> 0,
     occ_state |-> 0, reserved0 |-> 0, reserved1 |-> 0, error_log_id |-> 0,
     error_log_addr_start |-> ZeroWord, error_log_length |-> 0, reserved2 |-> 0,
     reserved3 |-> 0, occ_code_level |-> Zeros(17),
     sensor_eye_catcher |-> Zeros(7), num_of_sensor_blocks |-> 0,
     sensor_data_version |-> 0, blocks |-> NULL]

ZeroResp ==
    [sequence_num |-> 0, cmd_type |-> 0, rtn_status |-> 0, data_length |-> 0,
     data |-> ZeroPollData, chk_sum |-> 0, temp_block_id |-> 0,
     freq_block_id |-> 0, power_block_id |-> 0]

\* a slot of the slab that holds no object
FreeSlot == [kind |-> "free", live |-> FALSE, data |-> <<>>]

\* kfree(p): kfree(NULL) does nothing; the slot can be handed out again
Kfree(h, p) ==
    IF p = NULL THEN h ELSE [h EXCEPT ![p] = FreeSlot]

\* the blocks array the response points to
BlocksOf(o, h) == h[o.data.blocks].data

\* the loop of deinit_occ_resp_buf over the blocks: each per-block array is
\* passed to kfree when its pointer is NULL
RECURSIVE FreeBlockArrays(_, _, _)
FreeBlockArrays(o, h, b) ==
    IF b >= o.data.num_of_sensor_blocks THEN h
    ELSE LET blk == BlocksOf(o, h)[b + 1]
             h1 == IF blk.sensor = NULL THEN Kfree(h, blk.sensor) ELSE h
             h2 == IF blk.powr = NULL THEN Kfree(h1, blk.powr) ELSE h1
         IN  FreeBlockArrays(o, h2, b + 1)

\* deinit_occ_resp_buf(p), p never NULL (it is &occ_resp): the response and
\* the heap after the call
Deinit(o, h) ==
    IF o.data.blocks = NULL THEN [o |-> o, heap |-> h]
    ELSE [o |-> ZeroResp,
          heap |-> Kfree(FreeBlockArrays(o, h, 0), o.data.blocks)]

-----------------------------------------------------------------------------
(* parse_occ_response *)

\* The state of one call: the response o and the heap it writes, the cursor
\* dnum, ret, the number of kzalloc calls made, the highest offset of d read
\* so far, and how the call stands: "run", "abort" (goto abort taken) or
\* "oops" (an invalid read trapped).
ParseStart(o, h) ==
    [o |-> o, heap |-> h, dnum |-> HDR_LEN, ret |-> 0, nalloc |-> 0,
     maxrd |-> -1, st |-> "run"]

\* the address kzalloc hands out: the lowest free slot, or a new one
NewAddr(h) ==
    IF \E a \in 1..Len(h) : ~h[a].live
    THEN CHOOSE a \in 1..Len(h) :
            ~h[a].live /\ \A b \in 1..(a - 1) : h[b].live
    ELSE Len(h) + 1

\* kzalloc(sizeof(kind) * n): the new state and the pointer returned (NULL
\* when this is the call that fails)
Kzalloc(e, ps, kind, n) ==
    IF ps.nalloc + 1 = e.failAt
    THEN [ps |-> [ps EXCEPT !.nalloc = @ + 1], ptr |-> NULL]
    ELSE LET a == NewAddr(ps.heap)
             obj == [kind |-> kind, live |-> TRUE,
                     data |-> [i \in 1..n |-> ZeroOf(kind)]]
         IN  [ps |-> [ps EXCEPT !.nalloc = @ + 1,
                                !.heap = IF a > Len(@) THEN Append(@, obj)
                                         ELSE [@ EXCEPT ![a] = obj]],
              ptr |-> a]

\* lines 277-302: the fixed header fields
ParseHeader(e, o) ==
    [o EXCEPT
       !.sequence_num = U8(Rd(e, 0)),
       !.cmd_type = U8(Rd(e, 1)),
       !.rtn_status = U8(Rd(e, 2)),
       !.data_length = Be16(Rd(e, 3), Rd(e, 4)),
       !.data.status = U8(Rd(e, 5)),
       !.data.ext_status = U8(Rd(e, 6)),
       !.data.occs_present = U8(Rd(e, 7)),
       !.data.config = U8(Rd(e, 8)),
       !.data.occ_state = U8(Rd(e, 9)),
       !.data.reserved0 = U8(Rd(e, 10)),
       !.data.reserved1 = U8(Rd(e, 11)),
       !.data.error_log_id = U8(Rd(e, 12)),
       !.data.error_log_addr_start =
            Be32(Rd(e, 13), Rd(e, 14), Rd(e, 15), Rd(e, 16)),
       !.data.error_log_length = Be16(Rd(e, 17), Rd(e, 18)),
       !.data.reserved2 = U8(Rd(e, 19)),
       !.data.reserved3 = U8(Rd(e, 20)),
       !.data.occ_code_level = Strncpy(e, 21, 16) \o <<@[17]>>,
       !.data.sensor_eye_catcher = Strncpy(e, 37, 6) \o <<0>>,
       !.data.num_of_sensor_blocks = U8(Rd(e, 43)),
       !.data.sensor_data_version = U8(Rd(e, 44))]

\* an occ_sensor read at dnum (lines 348-352, 370-374)
ReadSensor(e, dnum) ==
    [sensor_id |-> Be16(Rd(e, dnum), Rd(e, dnum + 1)),
     value |-> Be16(Rd(e, dnum + 2), Rd(e, dnum + 3))]

\* a powr_sensor read at dnum (lines 390-401)
ReadPowr(e, dnum) ==
    [sensor_id |-> Be16(Rd(e, dnum), Rd(e, dnum + 1)),
     update_tag |-> Be32(Rd(e, dnum + 2), Rd(e, dnum + 3),
                         Rd(e, dnum + 4), Rd(e, dnum + 5)),
     accumulator |-> Be32(Rd(e, dnum + 6), Rd(e, dnum + 7),
                          Rd(e, dnum + 8), Rd(e, dnum + 9)),
     value |-> Be16(Rd(e, dnum + 10), Rd(e, dnum + 11))]

\* a cursor that moves by the size of the record read
AdvanceByRecordSize(dnum, sensor_length, logical) == dnum + logical

\* the cursor after one record: it moves by the block's sensor_length
Advance(dnum, sensor_length, logical) == dnum + sensor_length

\* the record loops (lines 347-356, 369-378, 389-407) from record s on, for
\* block b whose array is at ptr.  A POWR record's printk (lines 403-404)
\* reads blocks[b].sensor[s], and sensor is NULL in a POWR block.
RECURSIVE ParseRecords(_, _, _, _, _, _)
ParseRecords(e, ps, blk, ptr, kind, s) ==
    IF s >= blk.num_of_sensors THEN ps
    ELSE
      LET logical == IF kind = "powr" THEN 12 ELSE 4
          last == ps.dnum + logical - 1
          rec == IF kind = "powr" THEN ReadPowr(e, ps.dnum)
                 ELSE ReadSensor(e, ps.dnum)
          seen == [ps EXCEPT !.maxrd = Max(@, last)]
      IN  IF e.oobTrap /\ last >= OCC_DATA_MAX
          THEN [seen EXCEPT !.st = "oops"]
          ELSE
            LET ps1 == [seen EXCEPT !.heap[ptr].data[s + 1] = rec]
            IN  IF e.nullTrap /\ kind = "powr"
                THEN [ps1 EXCEPT !.st = "oops"]
                ELSE ParseRecords(e,
                        [ps1 EXCEPT !.dnum = Advance(@, blk.sensor_length, logical)],
                        blk, ptr, kind, s + 1)

\* the 8-byte sensor block head (lines 321-325)
ReadDescriptor(e, dnum) ==
    [ZeroBlock EXCEPT
       !.sensor_type = Strncpy(e, dnum, 4) \o <<0>>,
       !.reserved0 = U8(Rd(e, dnum + 4)),
       !.sensor_format = U8(Rd(e, dnum + 5)),
       !.sensor_length = U8(Rd(e, dnum + 6)),
       !.num_of_sensors = U8(Rd(e, dnum + 7))]

\* which record array a block of this type gets: "" for an unsupported type
KindOf(sensor_type) ==
    IF StrEq(sensor_type, TAG_FREQ) \/ StrEq(sensor_type, TAG_TEMP) THEN "sensor"
    ELSE IF StrEq(sensor_type, TAG_POWR) THEN "powr"
    ELSE ""

\* the block ids with those of FREQ and TEMP exchanged
SetBlockIdExchanged(o, sensor_type, b) ==
    IF StrEq(sensor_type, TAG_FREQ) THEN [o EXCEPT !.temp_block_id = b]
    ELSE IF StrEq(sensor_type, TAG_TEMP) THEN [o EXCEPT !.freq_block_id = b]
    ELSE [o EXCEPT !.power_block_id = b]

\* o->freq_block_id = b, o->temp_block_id = b or o->power_block_id = b
SetBlockId(o, sensor_type, b) ==
    IF StrEq(sensor_type, TAG_FREQ) THEN [o EXCEPT !.freq_block_id = b]
    ELSE IF StrEq(sensor_type, TAG_TEMP) THEN [o EXCEPT !.temp_block_id = b]
    ELSE [o EXCEPT !.power_block_id = b]

\* a test of the record count alone
IsEmptyBlockByCount(blk) == blk.num_of_sensors <= 0

\* the empty sensor block tests (lines 333-336)
IsEmptyBlock(blk) == blk.num_of_sensors <= 0 \/ blk.sensor_length = 0

\* the loop over the blocks (lines 319-416), from block b on
RECURSIVE ParseBlocks(_, _, _)
ParseBlocks(e, ps, b) ==
    IF ps.st # "run" \/ b >= ps.o.data.num_of_sensor_blocks THEN ps
    ELSE
      LET seen == [ps EXCEPT !.maxrd = Max(@, ps.dnum + DESC_LEN - 1)]
          blk == ReadDescriptor(e, ps.dnum)
          ps1 == [seen EXCEPT !.heap[ps.o.data.blocks].data[b + 1] = blk,
                              !.dnum = @ + DESC_LEN]
          kind == KindOf(blk.sensor_type)
      IN  IF e.oobTrap /\ ps.dnum + DESC_LEN - 1 >= OCC_DATA_MAX
          THEN [seen EXCEPT !.st = "oops"]
          ELSE IF IsEmptyBlock(blk)
          THEN ParseBlocks(e, ps1, b + 1)
          ELSE IF kind = ""
          THEN ParseBlocks(e, ps1, b + 1)
          ELSE
            LET k == Kzalloc(e, ps1, kind, blk.num_of_sensors)
                ps2 == [k.ps EXCEPT
                          !.heap[ps.o.data.blocks].data[b + 1][kind] = k.ptr]
            IN  IF k.ptr = NULL
                THEN [ps2 EXCEPT !.ret = -ENOMEM, !.st = "abort"]
                ELSE ParseBlocks(e,
                        ParseRecords(e,
                            [ps2 EXCEPT !.o = SetBlockId(@, blk.sensor_type, b)],
                            blk, k.ptr, kind, 0),
                        b + 1)

\* parse_occ_response(d, o): the state of the call when it returns (st is
\* "run" or "abort") or traps (st is "oops")
ParseOccResponse(e, o, h) ==
    LET ps0 == [ParseStart(o, h) EXCEPT !.o = ParseHeader(e, o), !.maxrd = 44]
    IN  IF ~StrEq(ps0.o.data.sensor_eye_catcher, EYE_SENSOR)
        THEN [ps0 EXCEPT !.ret = -1]
        ELSE IF ps0.o.data.num_of_sensor_blocks = 0
        THEN [ps0 EXCEPT !.ret = -1]
        ELSE
          LET k == Kzalloc(e, ps0, "blocks", ps0.o.data.num_of_sensor_blocks)
              ps1 == [k.ps EXCEPT !.o.data.blocks = k.ptr]
          IN  IF k.ptr = NULL
              THEN [ps1 EXCEPT !.ret = -ENOMEM]
              ELSE
                LET ps2 == ParseBlocks(e, ps1, 0)
                IN  IF ps2.st = "abort"
                    THEN LET r == Deinit(ps2.o, ps2.heap)
                         IN  [ps2 EXCEPT !.o = r.o, !.heap = r.heap]
                    ELSE ps2

-----------------------------------------------------------------------------
(* occ_get_all *)

\* the initialised bytes of fake_occ_rsp[OCC_DATA_MAX]; the rest is 0
fake_occ_rsp ==
    <<
      105, 0, 0, 0, 164, 195, 0, 3, 0, 1, 0, 0, 0, 0, 0, 0,
      0, 0, 0, 0, 0, 111, 112, 95, 111, 99, 99, 95, 49, 53, 48, 55,
      49, 54, 97, 0, 0, 83, 69, 78, 83, 79, 82, 4, 1, 84, 69, 77,
      80, 0, 1, 4, 10, 0, 106, 0, 0, 0, 108, 0, 0, 0, 109, 0,
      0, 0, 110, 0, 0, 0, 111, 0, 0, 0, 112, 0, 0, 0, 113, 0,
      0, 0, 115, 0, 0, 0, 116, 0, 0, 0, 117, 0, 0, 70, 82, 69,
      81, 0, 1, 4, 10, 0, 118, 0, 0, 0, 120, 0, 0, 0, 121, 0,
      0, 0, 122, 0, 0, 0, 123, 0, 0, 0, 124, 0, 0, 0, 125, 0,
      0, 0, 127, 0, 0, 0, 128, 0, 0, 0, 129, 0, 0, 80, 79, 87,
      82, 0, 1, 12, 0, 67, 65, 80, 83, 0, 1, 12, 1, 0, 0, 0,
      0, 4, 176, 9, 96, 4, 76, 0, 0, 23, 197
    >>

\* get_occdata_length(d)
GetOccdataLength(e) == Be16(Rd(e, 3), Rd(e, 4))

\* a fill loop that runs while b <= num_bytes
FillLoopInclusive(b, num_bytes, top) ==
    LET n == IF b <= num_bytes THEN ((num_bytes - b) \div 8) + 1 ELSE 0
    IN  IF n = 0 THEN top ELSE b + 8 * (n - 1) + 7

\* the loop of lines 465-467 from b on: for (; b < num_bytes; b = b + 8)
\* occ_getscomb(.., occ_data, b), which writes occ_data[b .. b+7].  It
\* runs n times; the result is the highest offset written (top when the
\* loop does not run).
FillLoop(b, num_bytes, top) ==
    LET n == IF b < num_bytes THEN ((num_bytes - 1 - b) \div 8) + 1 ELSE 0
    IN  IF n = 0 THEN top ELSE b + 8 * (n - 1) + 7

\* the highest offset of occ_data the transport writes in occ_get_all: the
\* first occ_getscomb (line 450) writes 0..7, the loop follows when the
\* length is accepted
FillTop(e) ==
    IF GetOccdataLength(e) > OCC_DATA_MAX THEN 7
    ELSE FillLoop(8, GetOccdataLength(e), 7)

\* occ_get_all(client, occ_resp) on the bytes e.d that the second memcpy
\* left in occ_data: the state of the decode call, or ret = -1 with the
\* response untouched when the declared length is above OCC_DATA_MAX
OccGetAll(e, o, h) ==
    IF GetOccdataLength(e) > OCC_DATA_MAX
    THEN [ParseStart(o, h) EXCEPT !.ret = -1]
    ELSE ParseOccResponse(e, o, h)

-----------------------------------------------------------------------------
(* The attribute reads *)

Indexes == 1..10      \* the index of temp1..temp10 (lines 655-674)

\* what a load that is not a load of a live, in-range object finds
JunkValues == {65535}

\* lines 618-620 and 645-646: how the load of
\*   data->occ_resp->data.blocks[temp_block_id].sensor[n - 1]
\* stands against the objects of the heap
TempAccessKind(o, h, n) ==
    IF o.data.blocks = NULL THEN "null_blocks"
    ELSE IF ~h[o.data.blocks].live THEN "freed_blocks"
    ELSE IF o.temp_block_id >= Len(BlocksOf(o, h)) THEN "oob_blocks"
    ELSE LET sensor == BlocksOf(o, h)[o.temp_block_id + 1].sensor
         IN  IF sensor = NULL THEN "null_sensor"
             ELSE IF ~h[sensor].live THEN "freed_sensor"
             ELSE IF n - 1 >= Len(h[sensor].data) THEN "oob_sensor"
             ELSE "ok"

\* the occ_sensor loaded, when the load is "ok"
TempSensor(o, h, n) ==
    h[BlocksOf(o, h)[o.temp_block_id + 1].sensor].data[n]

\* the outcomes of the read of field ("value" in show_occ_temp, "sensor_id"
\* in show_occ_temp_label): the number printed, or an oops when the load
\* goes through a NULL pointer and traps
TempOutcomes(o, h, n, field) ==
    LET kind == TempAccessKind(o, h, n)
    IN  IF kind = "ok"
        THEN {[kind |-> kind, n |-> n, field |-> field, oops |-> FALSE,
               val |-> TempSensor(o, h, n)[field]]}
        ELSE {[kind |-> kind, n |-> n, field |-> field, oops |-> FALSE,
               val |-> v] : v \in JunkValues}
             \cup (IF kind \in {"null_blocks", "null_sensor"}
                   THEN {[kind |-> kind, n |-> n, field |-> field,
                          oops |-> TRUE, val |-> 0]}
                   ELSE {})

-----------------------------------------------------------------------------
(* Input frames of the decode harness *)

TAG_FOOX == <<70, 79, 79, 88>>
EYE_WRONG == <<83, 69, 78, 83, 79, 88>>

\* eye catchers that differ from "SENSOR" in the last position, in the
\* first, and by a NUL in the middle
WrongEyes ==
    {EYE_WRONG, <<88, 69, 78, 83, 79, 82>>, <<83, 69, 78, 0, 79, 82>>}

Shape(tag, len, num) == [tag |-> tag, len |-> len, num |-> num]

\* the block shapes: populated blocks with stride equal to and above the
\* record's size, a block with no records, a block with no stride, an
\* unsupported type, and a block that declares more than the buffer holds
Shapes ==
    { Shape(TAG_TEMP, 4, 2), Shape(TAG_FREQ, 6, 2), Shape(TAG_TEMP, 4, 0),
      Shape(TAG_FREQ, 0, 2), Shape(TAG_POWR, 12, 1), Shape(TAG_FOOX, 4, 1),
      Shape(TAG_TEMP, 255, 17) }

LogicalSize(tag) == IF tag = TAG_POWR THEN 12 ELSE 4

\* byte j of record s of the k-th block: distinct per position, 238 after
\* the record's fields; hi sets the top bit of every field byte
BodyByte(sh, k, s, j, hi) ==
    IF j >= LogicalSize(sh.tag) THEN 238
    ELSE ((32 * k + 13 * s + j + 1) % 128) + hi

\* the bytes of the k-th block: its descriptor and its records (none are
\* supplied for a block that does not fit the buffer: they are all 0)
BlockBytes(sh, k, hi) ==
    LET n == IF sh.len * sh.num > 64 THEN 0 ELSE sh.len * sh.num
    IN  sh.tag \o <<0, 1, sh.len, sh.num>>
        \o [i \in 1..n |->
              BodyByte(sh, k, (i - 1) \div sh.len, (i - 1) % sh.len, hi)]

RECURSIVE BlocksBytes(_, _, _)
BlocksBytes(shs, k, hi) ==
    IF shs = <<>> THEN <<>>
    ELSE BlockBytes(Head(shs), k, hi) \o BlocksBytes(Tail(shs), k + 1, hi)

\* the 45 header bytes of fake_occ_rsp with the eye catcher and the block
\* count replaced
HeaderBytes(eye, count, hi) ==
    [i \in 1..HDR_LEN |->
        IF i \in 38..43 THEN eye[i - 37]
        ELSE IF i = 44 THEN count
        ELSE IF i \in 14..19 THEN 16 + i + hi
        ELSE fake_occ_rsp[i]]

Frame(eye, count, shs, hi) ==
    [shapes |-> shs, hi |-> hi, eye |-> eye, count |-> count,
     bytes |-> HeaderBytes(eye, count, hi) \o BlocksBytes(shs, 0, hi)]

ShapeSeqs == UNION {[1..n -> Shapes] : n \in 1..MaxBlocks}

\* the built-in sample frame as an input (its blocks are not listed)
SampleFrame ==
    [shapes |-> <<>>, hi |-> 0, eye |-> EYE_SENSOR, count |-> fake_occ_rsp[44],
     bytes |-> fake_occ_rsp]

\* bytes 3 and 4 of a frame: declared lengths of 0, 8, 9, 164, 4095, 4096,
\* 4097, 32768 and 65535
LengthBytes ==
    {<<0, 0>>, <<0, 8>>, <<0, 9>>, <<0, 164>>, <<15, 255>>, <<16, 0>>,
     <<16, 1>>, <<128, 0>>, <<255, 255>>}

\* frame f with its declared length replaced
WithLength(f, lb) ==
    [f EXCEPT !.bytes = [@ EXCEPT ![4] = lb[1], ![5] = lb[2]]]

InputFrames ==
    {Frame(EYE_SENSOR, Len(shs), shs, 0) : shs \in ShapeSeqs}
    \cup {SampleFrame}
    \cup {WithLength(Frame(EYE_SENSOR, 1, <<Shape(TAG_TEMP, 4, 2)>>, 0), lb) :
             lb \in LengthBytes}
    \cup {Frame(EYE_SENSOR, 1, <<sh>>, 128) : sh \in Shapes}
    \cup {Frame(eye, 1, <<sh>>, 0) : eye \in WrongEyes, sh \in Shapes}
    \cup {Frame(EYE_SENSOR, 0, <<sh>>, 0) : sh \in Shapes}
    \cup {Frame(EYE_SENSOR, 2, <<sh>>, 0) : sh \in Shapes}
    \cup {Frame(EYE_SENSOR, 3,
                <<Shape(TAG_TEMP, 4, 2), sh, Shape(TAG_TEMP, 4, 2)>>, 0) :
             sh \in {Shape(TAG_TEMP, 4, 0), Shape(TAG_FREQ, 0, 2),
                     Shape(TAG_FOOX, 4, 1), Shape(TAG_POWR, 12, 0),
                     Shape(TAG_FOOX, 4, 0), Shape(TAG_FOOX, 0, 3)}}


-----------------------------------------------------------------------------
(* The decode harness: parse_occ_response applied to an input frame, then  *)
(* the attribute reads and the release applied to what it left.            *)

Devices == {1, 2}
Threads == {1, 2}

\* a read past the end of occ_data traps, or finds some byte
OobOutcomes ==
    {[trap |-> TRUE, junk |-> 0], [trap |-> FALSE, junk |-> 0],
     [trap |-> FALSE, junk |-> 255]}

\* the decode call of the harness: how it stands, what it returned, its final
\* cursor, the highest offset it read, what lies past the buffer, and the
\* response it was handed
NoCall ==
    [st |-> "none", ret |-> 0, dnum |-> 0, maxrd |-> -1, junk |-> 0,
     fill |-> -1, before |-> ZeroResp]
NoAcc == [kind |-> "none", n |-> 0, field |-> "", oops |-> FALSE, val |-> 0]
NoFrame == [shapes |-> <<>>, hi |-> 0, eye |-> <<>>, count |-> 0]

\* the harness has no device
NoDrv ==
    [state |-> "none", update_lock |-> 0, valid |-> 0, last_updated |-> 0,
     sample_time |-> 0, occ_resp |-> ""]
IdleThr == [pc |-> "idle", dev |-> 0, attr |-> "", ret |-> 0, acc |-> NoAcc]

DecodeInit ==
    /\ char_signed \in BOOLEAN
    /\ \E f \in InputFrames :
          /\ occ_data = f.bytes
          /\ frame = [shapes |-> f.shapes, hi |-> f.hi, eye |-> f.eye,
                      count |-> f.count]
    /\ occ_resp = ZeroResp
    /\ heap = <<>>
    /\ call = NoCall
    /\ acc = NoAcc
    /\ drv = [d \in Devices |-> NoDrv]
    /\ thr = [t \in Threads |-> IdleThr]
    /\ jiffies = 0
    /\ nreads = 0

\* parse_occ_response(occ_data, &occ_resp)
HarnessDecode ==
    /\ call.st = "none"
    /\ \E failAt \in 0..(MaxBlocks + 2), oob \in OobOutcomes,
          nullTrap \in BOOLEAN :
          LET r == ParseOccResponse(
                       Env(occ_data, failAt, oob.junk, oob.trap, nullTrap),
                       occ_resp, heap)
          IN  /\ occ_resp' = r.o
              /\ heap' = r.heap
              /\ call' = [st |-> IF r.st = "oops" THEN "oops" ELSE "returned",
                          ret |-> r.ret, dnum |-> r.dnum, maxrd |-> r.maxrd,
                          junk |-> oob.junk, fill |-> -1,
                          before |-> occ_resp]
    /\ UNCHANGED <<char_signed, occ_data, frame, acc, drv, thr, jiffies, nreads>>

\* occ_get_all(client, &occ_resp) with the input frame as what the buffer
\* holds at lines 456 and 472
HarnessGetAll ==
    /\ call.st = "none"
    /\ LET e == Env(occ_data, 0, 0, FALSE, FALSE)
           r == OccGetAll(e, occ_resp, heap)
       IN  /\ occ_resp' = r.o
           /\ heap' = r.heap
           /\ call' = [st |-> "fetched", ret |-> r.ret, dnum |-> r.dnum,
                       maxrd |-> r.maxrd, junk |-> 0, fill |-> FillTop(e),
                       before |-> occ_resp]
    /\ UNCHANGED <<char_signed, occ_data, frame, acc, drv, thr, jiffies, nreads>>

\* lines 618-620 of show_occ_temp
HarnessShowTemp ==
    /\ call.st = "returned"
    /\ acc = NoAcc
    /\ \E n \in Indexes : acc' \in TempOutcomes(occ_resp, heap, n, "value")
    /\ UNCHANGED <<char_signed, occ_data, frame, occ_resp, heap, call, drv,
                   thr, jiffies, nreads>>

\* lines 645-646 of show_occ_temp_label
HarnessShowTempLabel ==
    /\ call.st = "returned"
    /\ acc = NoAcc
    /\ \E n \in Indexes : acc' \in TempOutcomes(occ_resp, heap, n, "sensor_id")
    /\ UNCHANGED <<char_signed, occ_data, frame, occ_resp, heap, call, drv,
                   thr, jiffies, nreads>>

\* deinit_occ_resp_buf(&occ_resp)
HarnessRelease ==
    /\ call.st = "returned"
    /\ acc = NoAcc
    /\ LET r == Deinit(occ_resp, heap)
       IN  occ_resp' = r.o /\ heap' = r.heap
    /\ call' = [call EXCEPT !.st = "released"]
    /\ UNCHANGED <<char_signed, occ_data, frame, acc, drv, thr, jiffies, nreads>>

DecodeNext ==
    \/ HarnessDecode
    \/ HarnessGetAll
    \/ HarnessShowTemp
    \/ HarnessShowTempLabel
    \/ HarnessRelease

DecodeSpec == DecodeInit /\ [][DecodeNext]_vars

-----------------------------------------------------------------------------
(* The driver: the attribute reads through occ_update_device, occ_remove   *)
(* and the clock.  Both devices have been probed.                          *)

\* the attributes read in the driver specification: temp1_input, temp1_label
DriverIndexes == {1}

\* which allocation of a decode fails in the driver specification: none, or
\* the third (the second block's record array, after the first's was made)
AllocFailures == {0, 3}

\* what every device's occ_resp pointer is set to: the one static response
ADDR_OCC_RESP == "&occ_resp"

\* occ_probe: devm_kzalloc zeroes the data; lines 722-726 set the rest
ProbedDrv ==
    [state |-> "bound", update_lock |-> 0, valid |-> 0, last_updated |-> 0,
     sample_time |-> HZ, occ_resp |-> ADDR_OCC_RESP]

Init ==
    /\ char_signed \in BOOLEAN
    /\ occ_data = fake_occ_rsp    \* what line 470 leaves in the buffer
    /\ frame = NoFrame
    /\ occ_resp = ZeroResp
    /\ heap = <<>>
    /\ call = NoCall
    /\ acc = NoAcc
    /\ drv = [d \in Devices |-> ProbedDrv]
    /\ thr = [t \in Threads |-> IdleThr]
    /\ jiffies = 0
    /\ nreads = 0

\* occ_remove: deinit_occ_resp_buf(data->occ_resp), without update_lock
occ_remove(d) ==
    /\ drv[d].state = "bound"
    /\ LET r == Deinit(occ_resp, heap)
       IN  occ_resp' = r.o /\ heap' = r.heap
    /\ drv' = [drv EXCEPT ![d].state = "removed"]
    /\ UNCHANGED <<char_signed, occ_data, frame, call, acc, thr, jiffies, nreads>>

\* a test that finds a refresh due at every read
NeedsUpdateAlways(d) == TRUE

\* time_after(jiffies, data->last_updated + data->sample_time) || !data->valid
NeedsUpdate(d) ==
    \/ jiffies > drv[d].last_updated + drv[d].sample_time
    \/ drv[d].valid = 0

\* A read of an attribute of device d: its show function calls
\* occ_update_device, which takes update_lock (the thread gets this far only
\* when the lock is free) and tests whether a refresh is due (lines
\* 484-487).  When none is due it unlocks and returns 0 (lines 497-499).
ShowBegin(t, d) ==
    /\ thr[t].pc = "idle"
    /\ nreads < MaxReads
    /\ nreads' = nreads + 1
    /\ drv[d].state = "bound"
    /\ drv[d].update_lock = 0
    /\ IF NeedsUpdate(d)
       THEN /\ drv' = [drv EXCEPT ![d].update_lock = t]
            /\ thr' = [thr EXCEPT ![t] = [IdleThr EXCEPT !.pc = "deinit", !.dev = d]]
       ELSE /\ drv' = drv
            /\ thr' = [thr EXCEPT ![t] = [IdleThr EXCEPT !.pc = "show", !.dev = d]]
    /\ UNCHANGED <<char_signed, occ_data, frame, occ_resp, heap, call, acc,
                   jiffies>>

\* line 490: deinit_occ_resp_buf(data->occ_resp)
UpdateDeinit(t) ==
    /\ thr[t].pc = "deinit"
    /\ LET r == Deinit(occ_resp, heap)
       IN  occ_resp' = r.o /\ heap' = r.heap
    /\ thr' = [thr EXCEPT ![t].pc = "get_all"]
    /\ UNCHANGED <<char_signed, occ_data, frame, call, acc, drv, jiffies, nreads>>

\* lines 492-499: ret = occ_get_all(client, data->occ_resp), the buffer
\* holding fake_occ_rsp; data->last_updated = jiffies; data->valid = 1;
\* mutex_unlock; return ret
UpdateGetAll(t) ==
    /\ thr[t].pc = "get_all"
    /\ \E failAt \in AllocFailures :
          LET r == OccGetAll(Env(occ_data, failAt, 0, FALSE, FALSE),
                             occ_resp, heap)
          IN  /\ occ_resp' = r.o
              /\ heap' = r.heap
              /\ thr' = [thr EXCEPT ![t].pc = "show", ![t].ret = r.ret]
    /\ drv' = [drv EXCEPT ![thr[t].dev].last_updated = jiffies,
                          ![thr[t].dev].valid = 1,
                          ![thr[t].dev].update_lock = 0]
    /\ UNCHANGED <<char_signed, occ_data, frame, call, acc, jiffies, nreads>>

\* What follows occ_update_device in the show functions: "if (ret != 0);"
\* guards an empty statement, so each goes on whatever ret is.

\* show_occ_data, line 597: print_occ_resp prints a fixed line
show_occ_data(t) ==
    /\ thr[t].pc = "show"
    /\ thr' = [thr EXCEPT ![t].pc = "done", ![t].attr = "all",
                          ![t].acc = [NoAcc EXCEPT !.kind = "print"]]
    /\ UNCHANGED <<char_signed, occ_data, frame, occ_resp, heap, call, acc,
                   drv, jiffies, nreads>>

\* show_occ_temp of attribute temp<n>_input, lines 618-620
show_occ_temp(t, n) ==
    /\ thr[t].pc = "show"
    /\ \E a \in TempOutcomes(occ_resp, heap, n, "value") :
          thr' = [thr EXCEPT ![t].pc = IF a.oops THEN "oops" ELSE "done",
                             ![t].attr = "temp", ![t].acc = a]
    /\ UNCHANGED <<char_signed, occ_data, frame, occ_resp, heap, call, acc,
                   drv, jiffies, nreads>>

\* show_occ_temp_label of attribute temp<n>_label, lines 645-646
show_occ_temp_label(t, n) ==
    /\ thr[t].pc = "show"
    /\ \E a \in TempOutcomes(occ_resp, heap, n, "sensor_id") :
          thr' = [thr EXCEPT ![t].pc = IF a.oops THEN "oops" ELSE "done",
                             ![t].attr = "label", ![t].acc = a]
    /\ UNCHANGED <<char_signed, occ_data, frame, occ_resp, heap, call, acc,
                   drv, jiffies, nreads>>

\* the read returns to its caller
ShowReturn(t) ==
    /\ thr[t].pc = "done"
    /\ thr' = [thr EXCEPT ![t] = IdleThr]
    /\ UNCHANGED <<char_signed, occ_data, frame, occ_resp, heap, call, acc,
                   drv, jiffies, nreads>>

Tick ==
    /\ jiffies < MaxJiffies
    /\ jiffies' = jiffies + 1
    /\ UNCHANGED <<char_signed, occ_data, frame, occ_resp, heap, call, acc,
                   drv, thr, nreads>>

Next ==
    \/ \E d \in Devices : occ_remove(d)
    \/ \E t \in Threads, d \in Devices : ShowBegin(t, d)
    \/ \E t \in Threads : UpdateDeinit(t)
    \/ \E t \in Threads : UpdateGetAll(t)
    \/ \E t \in Threads : show_occ_data(t)
    \/ \E t \in Threads, n \in DriverIndexes : show_occ_temp(t, n)
    \/ \E t \in Threads, n \in DriverIndexes : show_occ_temp_label(t, n)
    \/ \E t \in Threads : ShowReturn(t)
    \/ Tick

Spec == Init /\ [][Next]_vars

-----------------------------------------------------------------------------
(* Properties of the decode, stated on the harness *)

\* parse_occ_response has returned 0
Accepted == call.st = "returned" /\ call.ret = 0

\* the buffer as the decode call of the harness read it
CallEnv == Env(occ_data, 0, call.junk, FALSE, FALSE)

\* the block descriptors the decode stored, in frame order
DecodedBlocks == BlocksOf(occ_resp, heap)

TagOf(blk) == CStr(blk.sensor_type)
Populated(blk) == blk.num_of_sensors > 0 /\ blk.sensor_length > 0
Recognized == {TAG_TEMP, TAG_FREQ, TAG_POWR}

\* 8 + record_count * stride, summed over the first n blocks
RECURSIVE SpanSum(_, _)
SpanSum(blks, n) ==
    IF n = 0 THEN 0
    ELSE SpanSum(blks, n - 1) + DESC_LEN
         + blks[n].num_of_sensors * blks[n].sensor_length

\* the offset of the first record of block b (b counted from 1)
BodyStart(blks, b) == HDR_LEN + SpanSum(blks, b - 1) + DESC_LEN

\* the record array of a populated block of a recognized type
RecordsOf(blk) ==
    IF TagOf(blk) = TAG_POWR THEN heap[blk.powr].data
    ELSE heap[blk.sensor].data

\* the frame's bytes are the blocks it lists, and all lie in the buffer
FrameAsListed ==
    /\ frame.count = Len(frame.shapes)
    /\ Len(occ_data) <= OCC_DATA_MAX
    /\ \A k \in 1..Len(frame.shapes) :
          frame.shapes[k].len * frame.shapes[k].num <= 64

\* C1: for every input frame, parse_occ_response reads no byte at an offset
\* at or beyond the end of the 4096-byte buffer, and a frame whose declared
\* blocks or records extend past the end is rejected, not read.
C1_ReadsStayInBuffer ==
    call.st # "none" =>
        /\ call.maxrd < OCC_DATA_MAX
        /\ (call.dnum > OCC_DATA_MAX => call.ret # 0)

\* C2: when parse_occ_response returns a failure, the response handed in
\* holds what it held before the call.
C2_FailureLeavesResponse ==
    (call.st = "returned" /\ call.ret # 0) => occ_resp = call.before

\* C3: for an accepted frame whose populated blocks are TEMP, FREQ or POWR
\* with a stride of at least the record's size, the final cursor is
\* 45 + the sum of (8 + record_count * stride) over the blocks, and record s
\* of a block is decoded from the bytes at (body start + s * stride); when
\* the frame's bytes are the blocks it lists, the descriptors decoded are
\* those blocks'.
C3_CursorAdvancesByStride ==
    ( /\ Accepted
      /\ \A b \in 1..Len(DecodedBlocks) :
            Populated(DecodedBlocks[b]) =>
               /\ TagOf(DecodedBlocks[b]) \in Recognized
               /\ DecodedBlocks[b].sensor_length
                     >= LogicalSize(TagOf(DecodedBlocks[b])) )
    => /\ call.dnum = HDR_LEN + SpanSum(DecodedBlocks, Len(DecodedBlocks))
       /\ \A b \in 1..Len(DecodedBlocks) :
             LET blk == DecodedBlocks[b]
             IN  Populated(blk) =>
                   /\ Len(RecordsOf(blk)) = blk.num_of_sensors
                   /\ \A s \in 0..(blk.num_of_sensors - 1) :
                         LET at == BodyStart(DecodedBlocks, b)
                                      + s * blk.sensor_length
                         IN  RecordsOf(blk)[s + 1] =
                                IF TagOf(blk) = TAG_POWR
                                THEN ReadPowr(CallEnv, at)
                                ELSE ReadSensor(CallEnv, at)
       /\ FrameAsListed =>
             /\ Len(DecodedBlocks) = Len(frame.shapes)
             /\ \A b \in 1..Len(frame.shapes) :
                   /\ TagOf(DecodedBlocks[b]) = frame.shapes[b].tag
                   /\ DecodedBlocks[b].sensor_length = frame.shapes[b].len
                   /\ DecodedBlocks[b].num_of_sensors = frame.shapes[b].num

\* an accepted frame of a FREQ block of stride 6 followed by a TEMP block
C3_StrideAboveRecordSize ==
    /\ Accepted
    /\ frame.shapes = <<Shape(TAG_FREQ, 6, 2), Shape(TAG_TEMP, 4, 2)>>
    /\ frame.hi = 0
    /\ call.dnum = 81

\* the populated block of an unsupported type that the frame lists, if any
UnsupportedAt ==
    {k \in 1..Len(frame.shapes) :
        /\ frame.shapes[k].tag \notin Recognized
        /\ frame.shapes[k].num > 0
        /\ frame.shapes[k].len > 0}

\* 8 + record_count * stride, summed over the blocks the frame lists
ListedSpan ==
    SpanSum([k \in 1..Len(frame.shapes) |->
                [num_of_sensors |-> frame.shapes[k].num,
                 sensor_length |-> frame.shapes[k].len]],
            Len(frame.shapes))

\* C4: a populated block of an unrecognized type is skipped with its body:
\* decode succeeds, the cursor ends after all the blocks listed, and the
\* blocks after it are decoded as the frame lists them.
C4_UnrecognizedBlockSkipped ==
    (call.st = "returned" /\ FrameAsListed /\ frame.eye = EYE_SENSOR
     /\ UnsupportedAt # {})
    => /\ call.ret = 0
       /\ call.dnum = HDR_LEN + ListedSpan
       /\ \A b \in 1..Len(frame.shapes) :
             /\ TagOf(DecodedBlocks[b]) = frame.shapes[b].tag
             /\ DecodedBlocks[b].sensor_length = frame.shapes[b].len
             /\ DecodedBlocks[b].num_of_sensors = frame.shapes[b].num

\* the block id recorded for a type
BlockIdOf(tag) ==
    IF tag = TAG_TEMP THEN occ_resp.temp_block_id
    ELSE IF tag = TAG_FREQ THEN occ_resp.freq_block_id
    ELSE occ_resp.power_block_id

\* the indexes (from 0) of the decoded blocks of a type, all and populated
BlocksOfType(tag) ==
    {b \in 0..(Len(DecodedBlocks) - 1) : TagOf(DecodedBlocks[b + 1]) = tag}
PopulatedOfType(tag) ==
    {b \in BlocksOfType(tag) : Populated(DecodedBlocks[b + 1])}

Last(S) == CHOOSE b \in S : \A c \in S : c <= b

\* C5, as stated: after a successful decode of a frame in which a type
\* appears in more than one block, whatever their record counts and
\* strides, the block id recorded for the type is the index of the last
\* block of that type.
C5_LastBlockWins ==
    Accepted =>
       \A tag \in Recognized :
          Cardinality(BlocksOfType(tag)) > 1 =>
             BlockIdOf(tag) = Last(BlocksOfType(tag))

\* C5, amended: the block id recorded for the type is the index of the last
\* block of that type whose record count and stride are both nonzero.
C5_LastPopulatedBlockWins ==
    Accepted =>
       \A tag \in Recognized :
          (Cardinality(BlocksOfType(tag)) > 1 /\ PopulatedOfType(tag) # {}) =>
             BlockIdOf(tag) = Last(PopulatedOfType(tag))

\* an accepted frame of a populated TEMP block followed by an empty one
C5_EmptyBlockAfterPopulated ==
    /\ Accepted
    /\ frame.shapes = <<Shape(TAG_TEMP, 4, 2), Shape(TAG_TEMP, 4, 0)>>
    /\ frame.count = 2
    /\ occ_resp.temp_block_id = 0

\* C6: for a decoded response and n in 1..10, show_occ_temp and
\* show_occ_temp_label load record n-1 of the temperature block only when
\* n-1 is below the block's record count; no element outside the record
\* array is read.
C6_TempReadWithinRecords ==
    ( /\ Accepted
      /\ TagOf(DecodedBlocks[occ_resp.temp_block_id + 1]) = TAG_TEMP
      /\ acc.kind # "none" )
    => acc.kind # "oob_sensor"

-----------------------------------------------------------------------------
(* Properties of the driver *)

\* thread t is inside a refresh past deinit_occ_resp_buf, or has come out
\* of occ_update_device and is about to load from the response
UsesResponse(t) == thr[t].pc \in {"get_all", "show"}

\* C7: when two devices refresh concurrently each decode writes only its
\* own output: a step of a read of one device leaves alone the response
\* that a read of another device is decoding into or about to load from.
C7_DevicesDecodeApart ==
    [][\A t, u \in Threads :
          ( /\ UsesResponse(t)
            /\ thr[u].dev # 0
            /\ thr[u].dev # thr[t].dev
            /\ thr'[u] # thr[u] )
          => (occ_resp' = occ_resp /\ heap' = heap)]_vars

\* C8: for one device, no reader loads from the response's blocks or sensor
\* arrays (show_occ_temp, show_occ_temp_label) while another thread's
\* refresh of that device is between deinit_occ_resp_buf and the end of
\* parse_occ_response.
C8_NoLoadDuringRefresh ==
    [][\A t \in Threads :
          ( /\ thr[t].pc = "show"
            /\ thr'[t].pc \in {"done", "oops"}
            /\ thr'[t].attr \in {"temp", "label"} )
          => ~\E u \in Threads \ {t} :
                 thr[u].dev = thr[t].dev /\ thr[u].pc = "get_all"]_vars

\* the arrays the response points to
ResponseArrays ==
    IF occ_resp.data.blocks = NULL THEN {}
    ELSE {occ_resp.data.blocks}
         \cup {DecodedBlocks[b].sensor : b \in 1..Len(DecodedBlocks)}
         \cup {DecodedBlocks[b].powr : b \in 1..Len(DecodedBlocks)}

\* C9: across refreshes, aborted decodes and removal, every array
\* parse_occ_response allocated is released by deinit_occ_resp_buf: the
\* only live allocations are those of the response as it stands.
C9_NoArrayOutlivesResponse ==
    \A a \in 1..Len(heap) : heap[a].live => a \in ResponseArrays

\* C10: a read whose occ_update_device returned nonzero returns that
\* failure: no read gets to its body, where it prints or loads from the
\* response, with a nonzero result.
C10_FailedRefreshEndsRead ==
    \A t \in Threads : thr[t].pc \in {"done", "oops"} => thr[t].ret = 0

-----------------------------------------------------------------------------
(* Further properties of the decode *)

\* the heap holds no allocation
NothingAllocated == \A a \in 1..Len(heap) : ~heap[a].live

\* C11: if the 6 bytes at offsets 37..42 differ from "SENSOR" in any
\* position, decode fails and no block parsing is attempted: nothing is
\* allocated and no byte at offset 45 or beyond is read.
C11_BadMarkerStopsDecode ==
    (call.st \notin {"none", "fetched"} /\ frame.eye # EYE_SENSOR) =>
        /\ call.st \in {"returned", "released"}
        /\ call.ret # 0
        /\ NothingAllocated
        /\ occ_resp.data.blocks = NULL
        /\ call.maxrd < HDR_LEN
        /\ call.dnum = HDR_LEN

\* a frame with a NUL inside the marker has been decoded and rejected
C11_MarkerWithNulRejected ==
    /\ call.st = "returned"
    /\ frame.eye = <<83, 69, 78, 0, 79, 82>>
    /\ call.ret = -1

\* the blocks the frame lists that have no records or no stride
EmptyAt ==
    {k \in 1..Len(frame.shapes) :
        frame.shapes[k].num = 0 \/ frame.shapes[k].len = 0}

\* 8 + record_count * stride, summed over the first n blocks listed
RECURSIVE ListedSpanTo(_)
ListedSpanTo(n) ==
    IF n = 0 THEN 0
    ELSE ListedSpanTo(n - 1) + DESC_LEN
         + frame.shapes[n].num * frame.shapes[n].len

\* the 16-bit number the frame holds at bytes j, j+1 of record s of block k
ListedField(k, s, j) ==
    256 * BodyByte(frame.shapes[k], k - 1, s, j, 0)
    + BodyByte(frame.shapes[k], k - 1, s, j + 1, 0)

\* C12: a block with record_count = 0 or stride = 0 contributes zero
\* records and moves the cursor by exactly 8 bytes, whatever its tag; the
\* descriptor and the records of the blocks after it are decoded from the
\* bytes right after those 8.
C12_EmptyBlockTakesEightBytes ==
    ( /\ Accepted
      /\ FrameAsListed
      /\ frame.hi = 0
      /\ UnsupportedAt = {}
      /\ EmptyAt # {} )
    => /\ call.dnum = HDR_LEN + ListedSpanTo(Len(frame.shapes))
       /\ \A k \in 1..Len(frame.shapes) :
             LET blk == DecodedBlocks[k]
                 sh == frame.shapes[k]
             IN  /\ TagOf(blk) = sh.tag
                 /\ blk.sensor_length = sh.len
                 /\ blk.num_of_sensors = sh.num
                 /\ k \in EmptyAt => blk.sensor = NULL /\ blk.powr = NULL
                 /\ (k \notin EmptyAt /\ sh.tag \in {TAG_TEMP, TAG_FREQ}) =>
                       /\ Len(heap[blk.sensor].data) = sh.num
                       /\ \A s \in 0..(sh.num - 1) :
                             heap[blk.sensor].data[s + 1] =
                                [sensor_id |-> ListedField(k, s, 0),
                                 value |-> ListedField(k, s, 2)]

\* an accepted frame with a block of stride 0 between two TEMP blocks
C12_EmptyBlockBetweenTemps ==
    /\ Accepted
    /\ frame.shapes =
          <<Shape(TAG_TEMP, 4, 2), Shape(TAG_FREQ, 0, 2), Shape(TAG_TEMP, 4, 2)>>
    /\ occ_resp.temp_block_id = 2
    /\ call.dnum = 85

\* parse_occ_response has returned 0 on the built-in sample frame
SampleAccepted == Accepted /\ occ_data = fake_occ_rsp

\* the decoded block the power block id resolves to
PowerBlock == DecodedBlocks[occ_resp.power_block_id + 1]

\* C13, as stated: decoding fake_occ_rsp succeeds with 3 sensor blocks; the
\* temperature block is the first block, 10 records of stride 4, its first
\* sensor id 0x006a; the frequency block has 10 records of stride 4; the
\* block power_block_id resolves to has exactly 1 record of stride 12.
C13_SampleFrameAsStated ==
    SampleAccepted =>
        /\ occ_resp.data.num_of_sensor_blocks = 3
        /\ occ_resp.temp_block_id = 0
        /\ TagOf(DecodedBlocks[1]) = TAG_TEMP
        /\ DecodedBlocks[1].num_of_sensors = 10
        /\ DecodedBlocks[1].sensor_length = 4
        /\ heap[DecodedBlocks[1].sensor].data[1].sensor_id = 106
        /\ DecodedBlocks[occ_resp.freq_block_id + 1].num_of_sensors = 10
        /\ DecodedBlocks[occ_resp.freq_block_id + 1].sensor_length = 4
        /\ PowerBlock.num_of_sensors = 1
        /\ PowerBlock.sensor_length = 12

\* C13, amended: decoding fake_occ_rsp succeeds with 4 sensor blocks; the
\* temperature block is the first block, 10 records of stride 4, its first
\* sensor id 0x006a; the frequency block is the second, 10 records of
\* stride 4; the third block is POWR with stride 12 and no records, so no
\* power block id is recorded (it stays 0, the TEMP block); the fourth,
\* CAPS with 1 record of stride 12, is of no supported type and its record
\* is not decoded.
C13_SampleFrameDecoded ==
    SampleAccepted =>
        /\ occ_resp.data.num_of_sensor_blocks = 4
        /\ Len(DecodedBlocks) = 4
        /\ occ_resp.temp_block_id = 0
        /\ TagOf(DecodedBlocks[1]) = TAG_TEMP
        /\ DecodedBlocks[1].num_of_sensors = 10
        /\ DecodedBlocks[1].sensor_length = 4
        /\ Len(heap[DecodedBlocks[1].sensor].data) = 10
        /\ heap[DecodedBlocks[1].sensor].data[1].sensor_id = 106
        /\ occ_resp.freq_block_id = 1
        /\ TagOf(DecodedBlocks[2]) = TAG_FREQ
        /\ DecodedBlocks[2].num_of_sensors = 10
        /\ DecodedBlocks[2].sensor_length = 4
        /\ Len(heap[DecodedBlocks[2].sensor].data) = 10
        /\ TagOf(DecodedBlocks[3]) = TAG_POWR
        /\ DecodedBlocks[3].num_of_sensors = 0
        /\ DecodedBlocks[3].sensor_length = 12
        /\ DecodedBlocks[3].powr = NULL
        /\ occ_resp.power_block_id = 0
        /\ TagOf(DecodedBlocks[4]) = <<67, 65, 80, 83>>
        /\ DecodedBlocks[4].num_of_sensors = 1
        /\ DecodedBlocks[4].sensor_length = 12
        /\ DecodedBlocks[4].sensor = NULL /\ DecodedBlocks[4].powr = NULL
        /\ call.dnum = 157

\* the sample frame has been decoded by a build with unsigned plain char
C13_SampleFrameReturned ==
    SampleAccepted /\ ~char_signed /\ call.maxrd = 156

\* C14: after a successful decode of a frame with no populated block of a
\* type, the lookup for that type resolves to no block: a temperature read
\* goes through blocks[temp_block_id] only when that block is a populated
\* TEMP block, never through a block of another type by an index of 0.
C14_TempReadResolvesToTemp ==
    (Accepted /\ acc.kind # "none") =>
        occ_resp.temp_block_id \in PopulatedOfType(TAG_TEMP)

\* the unsigned big-endian value of the bytes at offsets at, at+1 of the
\* buffer, and the four bytes at offsets at..at+3
Unsigned16At(at) == 256 * Rd(CallEnv, at) + Rd(CallEnv, at + 1)
BytesAt(at) ==
    <<Rd(CallEnv, at), Rd(CallEnv, at + 1), Rd(CallEnv, at + 2),
      Rd(CallEnv, at + 3)>>

\* C15: every multi-byte field is the unsigned big-endian value of its
\* bytes, for all byte values 0..255: the declared data length is
\* 256*d[3] + d[4], each 16-bit sensor id and value is 256*hi + lo, and each
\* 32-bit field is the base-256 value of its 4 bytes.
C15_FieldsAreBigEndian ==
    Accepted =>
        /\ GetOccdataLength(CallEnv) = Unsigned16At(3)
        /\ occ_resp.data_length = Unsigned16At(3)
        /\ occ_resp.data.error_log_addr_start = BytesAt(13)
        /\ occ_resp.data.error_log_length = Unsigned16At(17)
        /\ \A b \in 1..Len(DecodedBlocks) :
              LET blk == DecodedBlocks[b]
              IN  \A s \in 0..(blk.num_of_sensors - 1) :
                    LET at == BodyStart(DecodedBlocks, b) + s * blk.sensor_length
                    IN  /\ blk.sensor # NULL =>
                              /\ heap[blk.sensor].data[s + 1].sensor_id
                                    = Unsigned16At(at)
                              /\ heap[blk.sensor].data[s + 1].value
                                    = Unsigned16At(at + 2)
                        /\ blk.powr # NULL =>
                              /\ heap[blk.powr].data[s + 1].sensor_id
                                    = Unsigned16At(at)
                              /\ heap[blk.powr].data[s + 1].update_tag
                                    = BytesAt(at + 2)
                              /\ heap[blk.powr].data[s + 1].accumulator
                                    = BytesAt(at + 6)
                              /\ heap[blk.powr].data[s + 1].value
                                    = Unsigned16At(at + 10)

\* why a decode of the harness failed, from the frame: the marker, the
\* block count, or else an allocation
FailureCause ==
    IF frame.eye # EYE_SENSOR THEN "marker"
    ELSE IF frame.count = 0 THEN "zero_blocks"
    ELSE "allocation"

\* C16: each failure cause has an error value of its own: the value
\* returned for a marker mismatch (-1, line 306) is returned for no other
\* cause, and the value returned for an allocation failure (-ENOMEM) is
\* returned for no other cause.
C16_CausesHaveOwnValues ==
    (call.st = "returned" /\ call.ret # 0) =>
        /\ call.ret = -1 <=> FailureCause = "marker"
        /\ call.ret = -ENOMEM <=> FailureCause = "allocation"

\* the length the frame declares in bytes 3..4
DeclaredLength == 256 * occ_data[4] + occ_data[5]

\* C17: a frame whose declared data length exceeds 4096 is rejected before
\* any block is parsed: occ_get_all returns failure without calling
\* parse_occ_response; for every accepted length the fill loop writes only
\* offsets 0..4095 of the buffer.
C17_LengthCheckedBeforeDecode ==
    call.st = "fetched" =>
        /\ DeclaredLength > OCC_DATA_MAX =>
              /\ call.ret # 0
              /\ call.maxrd = -1
              /\ occ_resp = call.before
              /\ NothingAllocated
        /\ call.fill < OCC_DATA_MAX

\* occ_get_all has accepted a frame that declares exactly 4096 bytes
C17_FullBufferAccepted ==
    /\ call.st = "fetched"
    /\ DeclaredLength = OCC_DATA_MAX
    /\ call.ret = 0
    /\ call.fill = OCC_DATA_MAX - 1

-----------------------------------------------------------------------------
(* Further properties of the driver *)

\* C18: data->valid is nonzero only if the device's response is the
\* complete result of a successful decode: a refresh whose fetch or decode
\* fails leaves valid at 0, so that the next read retries it.
C18_FailedRefreshLeavesInvalid ==
    [][\A t \in Threads :
          ( /\ thr[t].pc = "get_all"
            /\ thr'[t].pc = "show"
            /\ thr'[t].ret # 0 )
          => drv'[thr[t].dev].valid = 0]_vars

\* thread t is executing the deinit_occ_resp_buf + occ_get_all sequence
InRefresh(t) == thr[t].pc \in {"deinit", "get_all"}

\* for device d, valid is 0 or more than sample_time has gone by since
\* last_updated
RefreshDue(d) ==
    drv[d].valid = 0 \/ jiffies > drv[d].last_updated + drv[d].sample_time

\* a thread in the refresh sequence holds its device's update_lock, so no
\* two threads are in it for one device; and the refresh was due
RefreshUnderLock ==
    \A t \in Threads :
        InRefresh(t) =>
            /\ drv[thr[t].dev].update_lock = t
            /\ RefreshDue(thr[t].dev)
            /\ \A u \in Threads \ {t} :
                  InRefresh(u) => thr[u].dev # thr[t].dev

\* a read enters the refresh sequence exactly when the refresh is due;
\* otherwise it goes on with the response, the heap and the device as
\* they are
ReadRefreshesWhenDue ==
    \A t \in Threads :
        (thr[t].pc = "idle" /\ thr'[t].pc # "idle") =>
            /\ thr'[t].pc = "deinit" <=> RefreshDue(thr'[t].dev)
            /\ ~RefreshDue(thr'[t].dev) =>
                  /\ thr'[t].pc = "show"
                  /\ occ_resp' = occ_resp /\ heap' = heap /\ drv' = drv

\* C19: for a single device refreshes are serialized and rate-limited: the
\* deinit_occ_resp_buf + occ_get_all sequence runs only while update_lock
\* is held, by one thread at a time, and only when valid is 0 or more than
\* sample_time has gone by since last_updated; a read within sample_time
\* of a refresh triggers no decode.
C19_RefreshSerializedAndRateLimited ==
    []RefreshUnderLock /\ [][ReadRefreshesWhenDue]_vars

\* two reads of one device within sample_time, after which exactly the
\* three arrays of one decode have been allocated
C19_TwoReadsOneDecode ==
    \E t, u \in Threads :
        /\ t # u
        /\ thr[t].pc = "show" /\ thr[u].pc = "done"
        /\ thr[t].dev = thr[u].dev
        /\ nreads = 2
        /\ drv[thr[t].dev].valid = 1
        /\ jiffies <= drv[thr[t].dev].last_updated + drv[thr[t].dev].sample_time
        /\ Cardinality({a \in 1..Len(heap) : heap[a].live}) = 3
        /\ occ_resp.data.blocks # NULL

=============================================================================
